---- MODULE Spec2Model ----
(***************************************************************************)
(* AutoWeeklyReport.py as a state machine.                                 *)
(*                                                                         *)
(* One run of the script is the pipeline get_commits, get_issues,          *)
(* get_project_tasks, calculate_kpi / get_previous_week_kpi,               *)
(* assign_badges, generate_markdown_report over the module-level state     *)
(* stats, contributors, project_tasks and the reports directory.           *)
(*                                                                         *)
(* Conventions of the model                                                *)
(*  - text is a sequence of one-character strings, so that lower(), the    *)
(*    substring test "x in s", the regular expressions and the ordering    *)
(*    of file names are computed and not assumed;                          *)
(*  - KPI values are counted in tenths (2.5 is 25): every value the        *)
(*    script computes is a multiple of 0.5, which a float holds exactly;   *)
(*  - instants are whole days; a calendar date is a day number;            *)
(*  - a dict is the sequence of its entries in insertion order.            *)
(***************************************************************************)
EXTENDS Integers, Sequences, FiniteSets, TLC

VARIABLES
    pc,             \* position of the run in the main flow
    plan,           \* order in which the three aggregator stages are called
    feed,           \* upstream responses fixed in advance (order-independence runs)
    idx,            \* records consumed so far by the loop of the running stage
    cur,            \* loop variable: the record of the last iteration
    now,            \* reference instant of the run (day number)
    stats,          \* global statistics counters
    contributors,   \* per-contributor records, in insertion order
    project_tasks,  \* tasks updated this week, in feed order
    current_kpi,    \* result of calculate_kpi
    previous_kpi,   \* result of get_previous_week_kpi
    badges,         \* result of assign_badges
    reports,        \* the reports directory: week number -> file
    out,            \* diagnostics printed so far
    runs            \* runs started so far

vars == <<pc, plan, feed, idx, cur, now, stats, contributors, project_tasks,
          current_kpi, previous_kpi, badges, reports, out, runs>>

(***************************************************************************)
(* Bounds of the model.                                                    *)
(***************************************************************************)
MaxCommits == 3
MaxFew == 1
MaxItems == 2
MaxDates == 3
MaxRuns == 3
MaxFeed == 2

\* Python's None; every value that may be None is a record
None == [none |-> TRUE]

\* a datetime, as parse() returns it
Time(d) == [day |-> d]

(***************************************************************************)
(* Text.                                                                   *)
(***************************************************************************)
UpperChars == <<"A","B","C","D","E","F","G","H","I","J","K","L","M",
                "N","O","P","Q","R","S","T","U","V","W","X","Y","Z">>
LowerChars == <<"a","b","c","d","e","f","g","h","i","j","k","l","m",
                "n","o","p","q","r","s","t","u","v","w","x","y","z">>
DigitChars == <<"0","1","2","3","4","5","6","7","8","9">>

LowerChar(c) ==
    IF \E i \in 1..26 : UpperChars[i] = c
    THEN LowerChars[CHOOSE i \in 1..26 : UpperChars[i] = c]
    ELSE c

\* str.lower()
Lower(s) == [i \in 1..Len(s) |-> LowerChar(s[i])]

\* sub in s
Contains(s, sub) ==
    \E i \in 1..(Len(s) - Len(sub) + 1) : SubSeq(s, i, i + Len(sub) - 1) = sub

IsDigit(c) == \E i \in 1..10 : DigitChars[i] = c

DigitVal(c) == (CHOOSE i \in 1..10 : DigitChars[i] = c) - 1

\* int() of a string of digits
RECURSIVE ToNat(_)
ToNat(s) ==
    IF Len(s) = 0 THEN 0
    ELSE 10 * ToNat(SubSeq(s, 1, Len(s) - 1)) + DigitVal(s[Len(s)])

\* str() of a non-negative int
RECURSIVE NatStr(_)
NatStr(n) ==
    IF n < 10 THEN <<DigitChars[n + 1]>>
    ELSE NatStr(n \div 10) \o <<DigitChars[(n % 10) + 1]>>

\* s[a-1:b], clipped to the string as a Python slice is
Slice(s, a, b) ==
    LET hi == IF b < Len(s) THEN b ELSE Len(s) IN
    IF a > hi THEN <<>> ELSE [k \in 1..(hi - a + 1) |-> s[a + k - 1]]

\* length of the longest run of digits of s that starts at position i
RECURSIVE DigitRun(_, _)
DigitRun(s, i) ==
    IF i <= Len(s) /\ IsDigit(s[i]) THEN 1 + DigitRun(s, i + 1) ELSE 0

Str_fix == <<"f","i","x">>
Str_add == <<"a","d","d">>
Str_enhancement == <<"e","n","h","a","n","c","e","m","e","n","t">>
Str_refactor == <<"r","e","f","a","c","t","o","r">>
Str_bug == <<"b","u","g">>
Str_done == <<"d","o","n","e">>
Str_completed == <<"c","o","m","p","l","e","t","e","d">>
Str_unknown == <<"u","n","k","n","o","w","n">>

(***************************************************************************)
(* State of the module: stats, contributors, project_tasks.                *)
(***************************************************************************)
WindowDays == 7

InitStats ==
    [add |-> 0, fix |-> 0, refactor |-> 0, other_commits |-> 0,
     issues_opened |-> 0, issues_closed |-> 0, bugs_closed |-> 0,
     tasks_completed |-> 0]

\* the defaultdict's factory
DefaultContributor(n) ==
    [name |-> n, kpi |-> 0, bug_fixes |-> 0, total_actions |-> 0,
     add_commits |-> 0, refactor_commits |-> 0, active_days |-> {}]

Names(cs) == {cs[i].name : i \in 1..Len(cs)}

Pos(cs, n) == CHOOSE i \in 1..Len(cs) : cs[i].name = n

\* contributors[n]: a missing key is inserted, at the end, on first access
Touch(cs, n) == IF n \in Names(cs) THEN cs ELSE Append(cs, DefaultContributor(n))

Entry(cs, n) == cs[Pos(cs, n)]

\* the aggregate the three stages write
Agg == [stats |-> stats, contributors |-> contributors, project_tasks |-> project_tasks]

InitAgg == [stats |-> InitStats, contributors |-> <<>>, project_tasks |-> <<>>]

(***************************************************************************)
(* 1. get_commits: the body of the loop over the commits.                  *)
(***************************************************************************)
\* CommitKind with the add test ahead of the fix test
CommitKind_AddFirst(message) ==
    LET msg == Lower(message) IN
    IF Contains(msg, Str_add) \/ Contains(msg, Str_enhancement) THEN "add"
    ELSE IF Contains(msg, Str_fix) THEN "fix"
    ELSE IF Contains(msg, Str_refactor) THEN "refactor"
    ELSE "other_commits"

CommitKind(message) ==
    LET msg == Lower(message) IN
    IF Contains(msg, Str_fix) THEN "fix"
    ELSE IF Contains(msg, Str_add) \/ Contains(msg, Str_enhancement) THEN "add"
    ELSE IF Contains(msg, Str_refactor) THEN "refactor"
    ELSE "other_commits"

CommitWeight(kind) ==
    CASE kind = "fix" -> 25
      [] kind = "add" -> 20
      [] kind = "refactor" -> 10
      [] OTHER -> 10

\* lines 75-98 for a commit whose author block is present
ClassifyCommit(A, c) ==
    LET kind == CommitKind(c.message)
        author == c.author.name
        cs == Touch(A.contributors, author)
        i == Pos(cs, author)
    IN [A EXCEPT
          !.stats = [@ EXCEPT ![kind] = @ + 1],
          !.contributors =
              [cs EXCEPT ![i] =
                  [@ EXCEPT
                     !.kpi = @ + CommitWeight(kind),
                     !.bug_fixes = @ + (IF kind = "fix" THEN 1 ELSE 0),
                     !.add_commits = @ + (IF kind = "add" THEN 1 ELSE 0),
                     !.refactor_commits = @ + (IF kind = "refactor" THEN 1 ELSE 0),
                     !.total_actions = @ + 1,
                     !.active_days = @ \cup {c.author.date}]]]

(***************************************************************************)
(* 2. get_issues: the body of the loop over the issues.                    *)
(***************************************************************************)
IsBug(labels) == \E k \in 1..Len(labels) : Lower(labels[k]) = Str_bug

InWindow(t, at) == at.day >= t - WindowDays

\* ClassifyIssue that assigns the author's kpi instead of adding to it
ClassifyIssue_Assign(A, t, issue) ==
    LET opened == InWindow(t, issue.created_at)
        closed == issue.closed_at # None /\ InWindow(t, issue.closed_at)
        author == issue.user
        cs == Touch(A.contributors, author)
        i == Pos(cs, author)
    IN [A EXCEPT
          !.stats =
              [@ EXCEPT
                 !.issues_opened = @ + (IF opened THEN 1 ELSE 0),
                 !.issues_closed = @ + (IF closed THEN 1 ELSE 0),
                 !.bugs_closed = @ + (IF closed /\ IsBug(issue.labels) THEN 1 ELSE 0)],
          !.contributors =
              IF closed
              THEN [cs EXCEPT ![i] = [@ EXCEPT !.kpi = 20,
                                                !.total_actions = @ + 1]]
              ELSE @]

\* lines 111-127; t is the run's now
ClassifyIssue(A, t, issue) ==
    LET opened == InWindow(t, issue.created_at)
        closed == issue.closed_at # None /\ InWindow(t, issue.closed_at)
        author == issue.user
        cs == Touch(A.contributors, author)
        i == Pos(cs, author)
    IN [A EXCEPT
          !.stats =
              [@ EXCEPT
                 !.issues_opened = @ + (IF opened THEN 1 ELSE 0),
                 !.issues_closed = @ + (IF closed THEN 1 ELSE 0),
                 !.bugs_closed = @ + (IF closed /\ IsBug(issue.labels) THEN 1 ELSE 0)],
          !.contributors =
              IF closed
              THEN [cs EXCEPT ![i] = [@ EXCEPT !.kpi = @ + 20,
                                                !.total_actions = @ + 1]]
              ELSE @]

(***************************************************************************)
(* 3. get_project_tasks: the body of the loop over the board's items.      *)
(***************************************************************************)
\* lines 176-183: name if present, else text if present, lowercased; a
\* field without the key, or with an empty string, has the empty text
RECURSIVE StatusList(_)
StatusList(fields) ==
    IF Len(fields) = 0 THEN <<>>
    ELSE LET f == Head(fields)
             here == IF Len(f.name) > 0 THEN <<Lower(f.name)>>
                     ELSE IF Len(f.text) > 0 THEN <<Lower(f.text)>>
                     ELSE <<>>
         IN here \o StatusList(Tail(fields))

\* line 173
ItemTitle(item) ==
    IF item.content = None THEN "Untitled"
    ELSE IF "title" \notin DOMAIN item.content THEN "Untitled"
    ELSE item.content.title

IsCompleted(status_list) ==
    \E k \in 1..Len(status_list) : status_list[k] \in {Str_done, Str_completed}

\* ClassifyItem with the completion count ahead of the window test
ClassifyItem_CountFirst(A, t, item) ==
    LET status_list == StatusList(item.fieldValues)
        counted == [A EXCEPT !.stats = [@ EXCEPT !.tasks_completed =
                          @ + (IF IsCompleted(status_list) THEN 1 ELSE 0)]]
    IN
    IF InWindow(t, item.updatedAt)
    THEN [counted EXCEPT
            !.project_tasks =
                Append(@, [title |-> ItemTitle(item),
                           status |-> IF Len(status_list) > 0 THEN status_list[1]
                                      ELSE Str_unknown,
                           updated |-> item.updatedAt])]
    ELSE counted

\* lines 172-194 for a well-formed item; t is the run's now
ClassifyItem(A, t, item) ==
    LET status_list == StatusList(item.fieldValues) IN
    IF InWindow(t, item.updatedAt)
    THEN [A EXCEPT
            !.stats = [@ EXCEPT !.tasks_completed =
                          @ + (IF IsCompleted(status_list) THEN 1 ELSE 0)],
            !.project_tasks =
                Append(@, [title |-> ItemTitle(item),
                           status |-> IF Len(status_list) > 0 THEN status_list[1]
                                      ELSE Str_unknown,
                           updated |-> item.updatedAt])]
    ELSE A

(***************************************************************************)
(* 4. calculate_kpi, in tenths. The result is a float: 2.5 * int is one.   *)
(***************************************************************************)
PyInt(n) == [float |-> FALSE, v |-> n]
PyFloat(tenths) == [float |-> TRUE, v |-> tenths]

calculate_kpi(st) ==
    PyFloat(20 * st.add + 25 * st.fix + 20 * st.bugs_closed + 30 * st.tasks_completed)

\* str() of a number, as the f-strings of lines 308-309 format it
PyStr(x) ==
    IF x.float
    THEN NatStr(x.v \div 10) \o <<".">> \o <<DigitChars[(x.v % 10) + 1]>>
    ELSE NatStr(x.v)

(***************************************************************************)
(* 5. get_previous_week_kpi.                                               *)
(*                                                                         *)
(* A report file is named Weekly_Report_Week_<w>.md; the model keeps the   *)
(* part of the name after the prefix all listed files share, which is the  *)
(* part that decides both the sort and the week number.  A file is its     *)
(* lines of the KPI summary as text, and its contributor and task sections *)
(* as lists.                                                               *)
(***************************************************************************)
Str_md == <<".","m","d">>
Str_stars == <<"*","*">>
Str_ThisWeekKPI ==
    <<"T","h","i","s"," ","W","e","e","k"," ","K","P","I",":">>
Str_PreviousWeekKPI ==
    <<"P","r","e","v","i","o","u","s"," ","W","e","e","k"," ","K","P","I",":">>

\* line 284
FileName(week_number) == NatStr(week_number) \o Str_md

\* code points of the characters of a file name
Code(c) ==
    IF IsDigit(c) THEN 48 + DigitVal(c)
    ELSE CASE c = "." -> 46 [] c = "d" -> 100 [] c = "m" -> 109 [] OTHER -> 0

\* a < b for str
RECURSIVE StrLess(_, _)
StrLess(a, b) ==
    IF Len(b) = 0 THEN FALSE
    ELSE IF Len(a) = 0 THEN TRUE
    ELSE IF Code(a[1]) # Code(b[1]) THEN Code(a[1]) < Code(b[1])
    ELSE StrLess(Tail(a), Tail(b))

\* sorted(names, reverse=True)
RECURSIVE SortedDesc(_)
SortedDesc(S) ==
    IF S = {} THEN <<>>
    ELSE LET top == CHOOSE x \in S : \A y \in S \ {x} : StrLess(y, x)
         IN <<top>> \o SortedDesc(S \ {top})

\* int(re.findall(r'\d+', fname)[-1]): the last maximal run of digits
WeekNum(fname) ==
    LET starts == {i \in 1..Len(fname) :
                     IsDigit(fname[i]) /\ (i = 1 \/ ~IsDigit(fname[i - 1]))}
        last == CHOOSE i \in starts : \A j \in starts : j <= i
    IN ToNat(SubSeq(fname, last, last + DigitRun(fname, last) - 1))

\* the regular expression \*\*(\d+(?:\.\d+)?)\*\* matched at position i of
\* line: the length of group 1, or 0 when there is no match at i
MatchAt(line, i) ==
    LET d1 == DigitRun(line, i + 2)
        afterInt == i + 2 + d1
        d2 == DigitRun(line, afterInt + 1)
    IN IF Slice(line, i, i + 1) # Str_stars \/ d1 = 0 THEN 0
       ELSE IF Slice(line, afterInt, afterInt + 1) = Str_stars THEN d1
       ELSE IF Slice(line, afterInt, afterInt) = <<".">> /\ d2 > 0
               /\ Slice(line, afterInt + 1 + d2, afterInt + 2 + d2) = Str_stars
            THEN d1 + 1 + d2
       ELSE 0

\* float() of digits, or digits "." digits, in tenths; the files of the
\* model carry at most one digit after the point
ParseFloat(s) ==
    LET d1 == DigitRun(s, 1) IN
    IF d1 = Len(s) THEN PyFloat(10 * ToNat(s))
    ELSE PyFloat(10 * ToNat(SubSeq(s, 1, d1)) + DigitVal(s[d1 + 2]))

\* lines 231-233: re.search on one line; None when nothing matches
ParseKpiLine(line) ==
    LET hits == {i \in 1..Len(line) : MatchAt(line, i) > 0} IN
    IF hits = {} THEN None
    ELSE LET i == CHOOSE h \in hits : \A g \in hits : h <= g
         IN ParseFloat(SubSeq(line, i + 2, i + 1 + MatchAt(line, i)))

\* lines 229-233: the first line of the file that holds the marker and matches
RECURSIVE ScanFile(_)
ScanFile(lines) ==
    IF Len(lines) = 0 THEN None
    ELSE IF Contains(Head(lines), Str_ThisWeekKPI)
            /\ ParseKpiLine(Head(lines)) # None
         THEN ParseKpiLine(Head(lines))
    ELSE ScanFile(Tail(lines))

\* now.isocalendar()[1], for years of 52 weeks
IsoWeek(t) == ((t \div 7) % 52) + 1

\* ScanReports that returns at the first qualifying file, parsable or not
ScanReports_FirstOnly(dir, names, current_week) ==
    LET hits == {k \in 1..Len(names) : WeekNum(names[k]) < current_week} IN
    IF hits = {} THEN PyInt(0)
    ELSE LET k == CHOOSE h \in hits : \A g \in hits : h <= g
             file == dir[CHOOSE w \in DOMAIN dir : FileName(w) = names[k]]
         IN IF ScanFile(file.lines) # None THEN ScanFile(file.lines) ELSE PyInt(0)

\* lines 225-234: the loop over the sorted names
RECURSIVE ScanReports(_, _, _)
ScanReports(dir, names, current_week) ==
    IF Len(names) = 0 THEN PyInt(0)
    ELSE LET fname == Head(names)
             week_num == WeekNum(fname)
             file == dir[CHOOSE w \in DOMAIN dir : FileName(w) = fname]
         IN IF week_num < current_week /\ ScanFile(file.lines) # None
            THEN ScanFile(file.lines)
            ELSE ScanReports(dir, Tail(names), current_week)

\* lines 213-234; a missing directory and an empty one both give 0
get_previous_week_kpi(dir, t) ==
    ScanReports(dir, SortedDesc({FileName(w) : w \in DOMAIN dir}), IsoWeek(t))

(***************************************************************************)
(* 6. assign_badges.                                                       *)
(***************************************************************************)
\* max(contributors.items(), key=...): the first entry holding the maximum
\* by the field named key
MaxBy(cs, key) ==
    cs[CHOOSE i \in 1..Len(cs) :
          /\ \A j \in 1..Len(cs) : cs[j][key] <= cs[i][key]
          /\ \A j \in 1..(i - 1) : cs[j][key] < cs[i][key]]

\* TopWinner that keeps the last entry holding the maximum
TopWinner_Last(cs) ==
    cs[CHOOSE i \in 1..Len(cs) :
          /\ \A j \in 1..Len(cs) : cs[j].kpi <= cs[i].kpi
          /\ \A j \in (i + 1)..Len(cs) : cs[j].kpi < cs[i].kpi]

\* lines 246-248
TopWinner(cs) == MaxBy(cs, "kpi")

\* PositiveWinner without the test of the maximum
PositiveWinner_Unchecked(cs, key) == {MaxBy(cs, key).name}

\* lines 251-252, 261-262, 266-267: a winner only when the maximum is positive
PositiveWinner(cs, key) ==
    LET w == MaxBy(cs, key) IN IF w[key] > 0 THEN {w.name} ELSE {}

\* IsConsistent on the number of actions instead of the number of days
IsConsistent_Actions(e) == e.total_actions >= 3

\* line 272
IsConsistent(e) == Cardinality(e.active_days) >= 3

\* lines 239-275: contributor -> its badges, in the order they are appended;
\* an empty map when there is no contributor
assign_badges(cs) ==
    IF Len(cs) = 0 THEN <<>>
    ELSE LET give(b, who) == [n \in Names(cs) |-> IF n \in who THEN <<b>> ELSE <<>>]
             top == give("Top Contributor", {TopWinner(cs).name})
             bug == give("Bug Squasher", PositiveWinner(cs, "bug_fixes"))
             active == give("Most Active", {MaxBy(cs, "total_actions").name})
             feature == give("Feature Creator", PositiveWinner(cs, "add_commits"))
             refactor == give("Code Refactorer", PositiveWinner(cs, "refactor_commits"))
             consistent == give("Consistent Contributor",
                                {cs[i].name : i \in {k \in 1..Len(cs) : IsConsistent(cs[k])}})
         IN [n \in Names(cs) |->
                top[n] \o bug[n] \o active[n] \o feature[n] \o refactor[n] \o consistent[n]]

\* badges.get(contributor, [])
BadgesOf(b, n) == IF n \in DOMAIN b THEN b[n] ELSE <<>>

HasBadge(b, n, label) == \E k \in 1..Len(BadgesOf(b, n)) : BadgesOf(b, n)[k] = label

(***************************************************************************)
(* 7. generate_markdown_report.                                            *)
(***************************************************************************)
\* line 315: sorted(..., key=kpi, reverse=True), a stable sort
RECURSIVE ByKpiDesc(_)
ByKpiDesc(cs) ==
    IF Len(cs) = 0 THEN <<>>
    ELSE LET first == MaxBy(cs, "kpi")
             i == Pos(cs, first.name)
         IN <<first>> \o ByKpiDesc(SubSeq(cs, 1, i - 1) \o SubSeq(cs, i + 1, Len(cs)))

\* lines 314-324: one section per contributor
ContributorSections(cs, b) ==
    LET sorted == ByKpiDesc(cs) IN
    [k \in 1..Len(sorted) |->
        [name |-> sorted[k].name,
         kpi |-> sorted[k].kpi,
         total_actions |-> sorted[k].total_actions,
         bug_fixes |-> sorted[k].bug_fixes,
         add_commits |-> sorted[k].add_commits,
         refactor_commits |-> sorted[k].refactor_commits,
         active_days |-> Cardinality(sorted[k].active_days),
         badges |-> BadgesOf(b, sorted[k].name)]]

\* lines 308-309
KpiLines(kpi_score, previous) ==
    << <<"-"," ">> \o Str_ThisWeekKPI \o <<" ">> \o Str_stars
          \o PyStr(kpi_score) \o Str_stars,
       <<"-"," ">> \o Str_PreviousWeekKPI \o <<" ">> \o Str_stars
          \o PyStr(previous) \o Str_stars >>

\* lines 286-329: the file the run writes
RenderReport(A, kpi_score, previous, b) ==
    [lines |-> KpiLines(kpi_score, previous),
     stats |-> A.stats,
     contributors |-> ContributorSections(A.contributors, b),
     tasks |-> A.project_tasks]

(***************************************************************************)
(* Upstream records the stages may receive.                                *)
(***************************************************************************)
Msg_FixAdd == <<"F","i","x"," ","a","d","d">>
Msg_AddRefactor == <<"A","D","D"," ","r","e","f","a","c","t","o","r">>
Msg_Enhancement == <<"E","n","h","a","n","c","e","m","e","n","t">>
Msg_Refactor == <<"R","e","f","a","c","t","o","r">>
Msg_Docs == <<"d","o","c","s">>

Messages == {Msg_FixAdd, Msg_AddRefactor, Msg_Enhancement, Msg_Refactor, Msg_Docs}

Logins == {"alice", "bob"}

\* commit['commit']: the message and the author block
CommitsBy(messages, logins, dates) ==
    {[message |-> m, author |-> [name |-> n, date |-> d]] :
        m \in messages, n \in logins, d \in dates}

\* commits whose author block is null
CommitsByNobody(messages) == {[message |-> m, author |-> None] : m \in messages}

Label_Bug == <<"B","u","g">>
Label_Docs == <<"d","o","c","s">>

\* instants around the edge of the trailing window of a run at t
Outside(t) == Time(t - WindowDays - 1)
Edge(t) == Time(t - WindowDays)

IssuesOf(t, logins) ==
    {[created_at |-> c, closed_at |-> z, labels |-> l, user |-> u] :
        c \in {Outside(t), Edge(t)},
        z \in {None, Outside(t), Edge(t)},
        l \in {<<>>, <<Label_Docs, Label_Bug>>},
        u \in logins}

IssueRecords(t) == IssuesOf(t, Logins)

Field_Done == [name |-> <<"D","o","n","e">>, text |-> <<>>]
Field_Completed == [name |-> <<>>, text |-> <<"C","O","M","P","L","E","T","E","D">>]
Field_Todo == [name |-> <<"T","o","d","o">>, text |-> <<"d","o","n","e">>]
Field_Empty == [name |-> <<>>, text |-> <<>>]

ItemsOf(t, contents, fieldLists) ==
    {[updatedAt |-> u, content |-> c, fieldValues |-> f] :
        u \in {Outside(t), Edge(t)}, c \in contents, f \in fieldLists}

ItemRecords(t) ==
    ItemsOf(t, {None, [title |-> "Ship"], [typename |-> "DraftIssue"]},
            {<<>>, <<Field_Done>>, <<Field_Empty, Field_Todo, Field_Completed>>})

(***************************************************************************)
(* The main flow, lines 336-354.                                           *)
(***************************************************************************)
MainPlan == <<"get_commits", "get_issues", "get_project_tasks">>

\* where the flow goes when a stage returns
After(stage) ==
    LET i == CHOOSE k \in 1..Len(plan) : plan[k] = stage IN
    IF i < Len(plan) THEN plan[i + 1] ELSE "kpi"

NoFeed == [commits |-> <<>>, issues |-> <<>>, items |-> <<>>]

Fresh ==
    /\ idx = 0
    /\ cur = None
    /\ stats = InitStats
    /\ contributors = <<>>
    /\ project_tasks = <<>>
    /\ current_kpi = None
    /\ previous_kpi = None
    /\ badges = <<>>
    /\ out = {}

SetAgg(A) ==
    /\ stats' = A.stats
    /\ contributors' = A.contributors
    /\ project_tasks' = A.project_tasks

\* line 69-71: the response is not a list
CommitsNotList ==
    /\ pc = "get_commits" /\ idx = 0
    /\ out' = out \cup {"GitHub API Error in Commits"}
    /\ pc' = After("get_commits")
    /\ UNCHANGED <<plan, feed, idx, cur, now, stats, contributors, project_tasks,
                   current_kpi, previous_kpi, badges, reports, runs>>

\* lines 74-98: one iteration; a null author block makes line 77 raise
\* TypeError, which nothing catches
CommitStep(c) ==
    /\ pc = "get_commits"
    /\ cur' = c
    /\ IF c.author = None
       THEN /\ pc' = "crashed"
            /\ UNCHANGED <<idx, stats, contributors, project_tasks>>
       ELSE /\ pc' = pc
            /\ idx' = idx + 1
            /\ SetAgg(ClassifyCommit(Agg, c))
    /\ UNCHANGED <<plan, feed, now, current_kpi, previous_kpi, badges, reports, out, runs>>

\* the list is exhausted: get_commits returns
CommitsEnd ==
    /\ pc = "get_commits"
    /\ pc' = After("get_commits")
    /\ idx' = 0 /\ cur' = None
    /\ UNCHANGED <<plan, feed, now, stats, contributors, project_tasks,
                   current_kpi, previous_kpi, badges, reports, out, runs>>

\* the loop variable when the response is an error object: its first key
ErrorKey == [key |-> "message"]

\* lines 108-111: there is no isinstance check; iterating an error object
\* yields its keys, and indexing a key by 'created_at' raises TypeError
IssuesNotList ==
    /\ pc = "get_issues" /\ idx = 0
    /\ cur' = ErrorKey
    /\ pc' = "crashed"
    /\ UNCHANGED <<plan, feed, idx, now, stats, contributors, project_tasks,
                   current_kpi, previous_kpi, badges, reports, out, runs>>

\* lines 110-127: one iteration
IssueStep(issue) ==
    /\ pc = "get_issues"
    /\ cur' = issue
    /\ idx' = idx + 1
    /\ SetAgg(ClassifyIssue(Agg, now, issue))
    /\ UNCHANGED <<pc, plan, feed, now, current_kpi, previous_kpi, badges, reports,
                   out, runs>>

IssuesEnd ==
    /\ pc = "get_issues"
    /\ pc' = After("get_issues")
    /\ idx' = 0 /\ cur' = None
    /\ UNCHANGED <<plan, feed, now, stats, contributors, project_tasks,
                   current_kpi, previous_kpi, badges, reports, out, runs>>

\* lines 171-194: one iteration over a well-formed item
TaskStep(item) ==
    /\ pc = "get_project_tasks"
    /\ cur' = item
    /\ idx' = idx + 1
    /\ SetAgg(ClassifyItem(Agg, now, item))
    /\ UNCHANGED <<pc, plan, feed, now, current_kpi, previous_kpi, badges, reports,
                   out, runs>>

\* lines 167-168, 195-196: the response, or the next item, has not the
\* expected shape; the except clause reports it and the stage returns with
\* what it has accumulated
TasksMalformed ==
    /\ pc = "get_project_tasks"
    /\ out' = out \cup {"Error fetching project tasks"}
    /\ pc' = After("get_project_tasks")
    /\ idx' = 0 /\ cur' = None
    /\ UNCHANGED <<plan, feed, now, stats, contributors, project_tasks,
                   current_kpi, previous_kpi, badges, reports, runs>>

TasksEnd ==
    /\ pc = "get_project_tasks"
    /\ pc' = After("get_project_tasks")
    /\ idx' = 0 /\ cur' = None
    /\ UNCHANGED <<plan, feed, now, stats, contributors, project_tasks,
                   current_kpi, previous_kpi, badges, reports, out, runs>>

\* lines 347-348
ComputeKpi ==
    /\ pc = "kpi"
    /\ current_kpi' = calculate_kpi(stats)
    /\ previous_kpi' = get_previous_week_kpi(reports, now)
    /\ pc' = "badges"
    /\ UNCHANGED <<plan, feed, idx, cur, now, stats, contributors, project_tasks,
                   badges, reports, out, runs>>

\* line 351
AssignBadges ==
    /\ pc = "badges"
    /\ badges' = assign_badges(contributors)
    /\ pc' = "report"
    /\ UNCHANGED <<plan, feed, idx, cur, now, stats, contributors, project_tasks,
                   current_kpi, previous_kpi, reports, out, runs>>

\* line 354: the file of the current week is created or overwritten
GenerateReport ==
    /\ pc = "report"
    /\ reports' =
          [w \in DOMAIN reports \cup {IsoWeek(now)} |->
              IF w = IsoWeek(now)
              THEN RenderReport(Agg, current_kpi, previous_kpi, badges)
              ELSE reports[w]]
    /\ out' = out \cup {"Report generated"}
    /\ pc' = "done"
    /\ UNCHANGED <<plan, feed, idx, cur, now, stats, contributors, project_tasks,
                   current_kpi, previous_kpi, badges, runs>>

(***************************************************************************)
(* The steps of a run that take no upstream record.                        *)
(***************************************************************************)
Control ==
    \/ CommitsNotList
    \/ CommitsEnd
    \/ IssuesNotList
    \/ IssuesEnd
    \/ TasksMalformed
    \/ TasksEnd
    \/ ComputeKpi
    \/ AssignBadges
    \/ GenerateReport

NoReports == [w \in {} |-> None]

\* day 70 lies in ISO week 11
StartDays == {70}

Init ==
    /\ plan = MainPlan
    /\ pc = plan[1]
    /\ feed = NoFeed
    /\ now \in StartDays
    /\ reports = NoReports
    /\ runs = 1
    /\ Fresh

\* a few records of each kind, for the stages a specification is not about
FewCommits ==
    {[message |-> Msg_FixAdd, author |-> [name |-> "alice", date |-> 1]],
     [message |-> Msg_Docs, author |-> [name |-> "bob", date |-> 1]]}

FewIssues(t) ==
    {[created_at |-> Outside(t), closed_at |-> Edge(t), labels |-> <<Label_Bug>>,
      user |-> u] : u \in Logins}

FewItems(t) ==
    {[updatedAt |-> Edge(t), content |-> [title |-> "Ship"],
      fieldValues |-> <<Field_Done>>]}

(***************************************************************************)
(* Spec: one run; the commit stage on every kind of message and of author  *)
(* block, the issue stage on every kind of issue.                          *)
(***************************************************************************)
Next ==
    \/ Control
    \/ \E c \in CommitsBy(Messages, Logins, {1}) \cup CommitsByNobody(Messages) :
          idx < MaxCommits /\ CommitStep(c)
    \/ \E i \in IssueRecords(now) : idx < MaxFew /\ IssueStep(i)
    \/ \E i \in FewItems(now) : idx < MaxFew /\ TaskStep(i)

Spec == Init /\ [][Next]_vars

(***************************************************************************)
(* SpecDays: one run; commits spread over several calendar dates.          *)
(***************************************************************************)
NextDays ==
    \/ Control
    \/ \E c \in CommitsBy({Msg_FixAdd, Msg_Docs}, Logins, 1..MaxDates) :
          idx < MaxCommits /\ CommitStep(c)
    \/ \E i \in FewIssues(now) : idx < MaxFew /\ IssueStep(i)
    \/ \E i \in FewItems(now) : idx < MaxFew /\ TaskStep(i)

SpecDays == Init /\ [][NextDays]_vars

(***************************************************************************)
(* SpecBadges: one run; commits of every kind and closed issues, by two    *)
(* logins.                                                                 *)
(***************************************************************************)
NextBadges ==
    \/ Control
    \/ \E c \in CommitsBy({Msg_FixAdd, Msg_Enhancement, Msg_Refactor, Msg_Docs},
                          Logins, {1}) :
          idx < MaxCommits /\ CommitStep(c)
    \/ \E i \in FewIssues(now) : idx < MaxFew + 1 /\ IssueStep(i)
    \/ \E i \in FewItems(now) : idx < MaxFew /\ TaskStep(i)

SpecBadges == Init /\ [][NextBadges]_vars

(***************************************************************************)
(* SpecTasks: one run; the project-task stage on every kind of item.       *)
(***************************************************************************)
NextTasks ==
    \/ Control
    \/ \E c \in FewCommits : idx < MaxFew /\ CommitStep(c)
    \/ \E i \in FewIssues(now) : idx < MaxFew /\ IssueStep(i)
    \/ \E i \in ItemRecords(now) : idx < MaxItems /\ TaskStep(i)

SpecTasks == Init /\ [][NextTasks]_vars

(***************************************************************************)
(* SpecHistory: several runs, one after the other, over a reports          *)
(* directory that may hold the report of an earlier week; a run may be     *)
(* interrupted while it writes its report.                                 *)
(***************************************************************************)
\* day 56 lies in ISO week 9, day 357 in ISO week 52
HistoryStartDays == {56, 357}

\* the file as open(filename, 'w') of line 286 leaves it, created or
\* truncated, until the writes of the with block are flushed
CutReport == [lines |-> <<>>, stats |-> InitStats, contributors |-> <<>>, tasks |-> <<>>]

\* the report of an earlier run that counted three fix commits
OldReport ==
    LET st == [InitStats EXCEPT !.fix = 3] IN
    RenderReport([InitAgg EXCEPT !.stats = st], calculate_kpi(st), PyInt(0), <<>>)

\* what the directory may hold before the first run, in week w
OldReports(w) ==
    {NoReports, [k \in {w - 1} |-> OldReport], [k \in {w - 2} |-> OldReport]}

InitHistory ==
    /\ plan = MainPlan
    /\ pc = plan[1]
    /\ feed = NoFeed
    /\ now \in HistoryStartDays
    /\ reports \in OldReports(IsoWeek(now))
    /\ runs = 1
    /\ Fresh

\* line 286, and the process is killed before the file is flushed and closed
ReportInterrupted ==
    /\ pc = "report"
    /\ reports' =
          [w \in DOMAIN reports \cup {IsoWeek(now)} |->
              IF w = IsoWeek(now) THEN CutReport ELSE reports[w]]
    /\ pc' = "crashed"
    /\ UNCHANGED <<plan, feed, idx, cur, now, stats, contributors, project_tasks,
                   current_kpi, previous_kpi, badges, out, runs>>

\* the script is started again, in the same week or in the next one, as a
\* new process over the same reports directory
NewRun ==
    /\ pc \in {"done", "crashed"}
    /\ runs < MaxRuns
    /\ runs' = runs + 1
    /\ \E k \in 0..1 : now' = now + 7 * k
    /\ pc' = plan[1]
    /\ idx' = 0
    /\ cur' = None
    /\ stats' = InitStats
    /\ contributors' = <<>>
    /\ project_tasks' = <<>>
    /\ current_kpi' = None
    /\ previous_kpi' = None
    /\ badges' = <<>>
    /\ out' = {}
    /\ UNCHANGED <<plan, feed, reports>>

HistoryCommits ==
    {[message |-> Msg_FixAdd, author |-> [name |-> "alice", date |-> 1]]}

NextHistory ==
    \/ Control
    \/ \E c \in HistoryCommits : idx < MaxFew /\ CommitStep(c)
    \/ ReportInterrupted
    \/ NewRun

SpecHistory == InitHistory /\ [][NextHistory]_vars

(***************************************************************************)
(* SpecPerm: one run on responses fixed in advance, with the three         *)
(* aggregator stages called in any order.                                  *)
(***************************************************************************)
Perms ==
    {p \in [1..3 -> {MainPlan[k] : k \in 1..3}] : \A a, b \in 1..3 : a # b => p[a] # p[b]}

SeqsUpTo(S, n) == UNION {[1..k -> S] : k \in 0..n}

PermCommits ==
    {[message |-> Msg_Enhancement, author |-> [name |-> "alice", date |-> 1]],
     [message |-> Msg_Docs, author |-> [name |-> "bob", date |-> 1]]}

Feeds(t) ==
    [commits : SeqsUpTo(PermCommits, MaxFeed),
     issues : SeqsUpTo(FewIssues(t), MaxFeed),
     items : SeqsUpTo(FewItems(t), MaxFeed)]

InitPerm ==
    /\ plan \in Perms
    /\ pc = plan[1]
    /\ now \in StartDays
    /\ feed \in Feeds(now)
    /\ reports = NoReports
    /\ runs = 1
    /\ Fresh

FeedCommit ==
    idx < Len(feed.commits) /\ CommitStep(feed.commits[idx + 1])

FeedCommitsEnd ==
    idx = Len(feed.commits) /\ CommitsEnd

FeedIssue ==
    idx < Len(feed.issues) /\ IssueStep(feed.issues[idx + 1])

FeedIssuesEnd ==
    idx = Len(feed.issues) /\ IssuesEnd

FeedItem ==
    idx < Len(feed.items) /\ TaskStep(feed.items[idx + 1])

FeedItemsEnd ==
    idx = Len(feed.items) /\ TasksEnd

NextPerm ==
    \/ FeedCommit
    \/ FeedCommitsEnd
    \/ FeedIssue
    \/ FeedIssuesEnd
    \/ FeedItem
    \/ FeedItemsEnd
    \/ ComputeKpi
    \/ AssignBadges
    \/ GenerateReport

SpecPerm == InitPerm /\ [][NextPerm]_vars

\* the three loops, run to their end on a whole response
RECURSIVE CommitsLoop(_, _)
CommitsLoop(A, commits) ==
    IF Len(commits) = 0 THEN A
    ELSE CommitsLoop(ClassifyCommit(A, Head(commits)), Tail(commits))

RECURSIVE IssuesLoop(_, _, _)
IssuesLoop(A, t, issues) ==
    IF Len(issues) = 0 THEN A
    ELSE IssuesLoop(ClassifyIssue(A, t, Head(issues)), t, Tail(issues))

RECURSIVE ItemsLoop(_, _, _)
ItemsLoop(A, t, items) ==
    IF Len(items) = 0 THEN A
    ELSE ItemsLoop(ClassifyItem(A, t, Head(items)), t, Tail(items))

\* lines 338-344: the three stages in the order of the main flow
MainOrder(fd, t) ==
    ItemsLoop(IssuesLoop(CommitsLoop(InitAgg, fd.commits), t, fd.issues), t, fd.items)

(***************************************************************************)
(* Properties of the commit stage.                                         *)
(***************************************************************************)
CommitCounters == {"fix", "add", "refactor", "other_commits"}

\* the record of a contributor, the default one if it has none yet
RecordOf(cs, n) == IF n \in Names(cs) THEN Entry(cs, n) ELSE DefaultContributor(n)

\* C1: every commit get_commits counts increments exactly one of the four
\* commit counters, chosen by the priority fix > add/enhancement > refactor
\* > other on the lowercased message; a message containing "fix" gives the
\* author kpi +2.5 and bug_fixes +1 whatever else it contains; and the
\* author's total_actions grows by exactly 1.
C1_OneBucketByPriority ==
    [][(pc = "get_commits" /\ idx' = idx + 1) =>
         LET msg == Lower(cur'.message)
             bucket == IF Contains(msg, Str_fix) THEN "fix"
                       ELSE IF Contains(msg, Str_add) THEN "add"
                       ELSE IF Contains(msg, Str_enhancement) THEN "add"
                       ELSE IF Contains(msg, Str_refactor) THEN "refactor"
                       ELSE "other_commits"
             who == cur'.author.name
             before == RecordOf(contributors, who)
             after == RecordOf(contributors', who)
         IN /\ \A k \in CommitCounters :
                  stats'[k] = stats[k] + (IF k = bucket THEN 1 ELSE 0)
            /\ \A k \in DOMAIN stats \ CommitCounters : stats'[k] = stats[k]
            /\ after.total_actions = before.total_actions + 1
            /\ bucket = "fix" =>
                  /\ after.kpi = before.kpi + 25
                  /\ after.bug_fixes = before.bug_fixes + 1
    ]_vars

\* a commit "Fix add" has been counted, as a fix, after another commit
C1_Witness ==
    /\ pc = "get_commits" /\ idx = 2
    /\ cur # None /\ cur.message = Msg_FixAdd
    /\ stats.fix = 1 /\ stats.add = 0

\* C7: a commit whose author block is absent is classified and counted
\* under the contributor "Unknown", and the stage goes on.
C7_NobodyCountedAsUnknown ==
    [][(pc = "get_commits" /\ cur' # None /\ cur'.author = None) =>
         /\ pc' = "get_commits"
         /\ idx' = idx + 1
         /\ RecordOf(contributors', "Unknown").total_actions
               = RecordOf(contributors, "Unknown").total_actions + 1
    ]_vars

(***************************************************************************)
(* Properties of the issue stage.                                          *)
(***************************************************************************)
\* C2: on a response that is not a list of issues, get_issues reports it
\* and returns with stats and contributors unchanged, and the run goes on
\* to the next stage.
C2_MalformedIssuesSkipped ==
    [][(pc = "get_issues" /\ cur' = ErrorKey) =>
         /\ pc' = After("get_issues")
         /\ out' # out
         /\ stats' = stats /\ contributors' = contributors
    ]_vars

(***************************************************************************)
(* Properties of the badges.                                               *)
(***************************************************************************)
Badged == pc \in {"report", "done"}

\* C4: a contributor holds "Consistent Contributor" if and only if its set
\* of active days has at least 3 elements.
C4_ConsistentIffThreeDays ==
    Badged =>
        \A i \in 1..Len(contributors) :
            HasBadge(badges, contributors[i].name, "Consistent Contributor")
                <=> Cardinality(contributors[i].active_days) >= 3

\* one contributor holds the badge with three active days, and another,
\* with more actions on fewer days, does not
C4_Witness ==
    /\ pc = "done" /\ Len(contributors) = 2
    /\ \E i, j \in 1..2 :
          /\ Cardinality(contributors[i].active_days) = 3
          /\ HasBadge(badges, contributors[i].name, "Consistent Contributor")
          /\ Cardinality(contributors[j].active_days) < 3
          /\ contributors[j].total_actions >= 1
          /\ ~HasBadge(badges, contributors[j].name, "Consistent Contributor")

\* the maximum of a count over the contributors is 0
AllZero(key) == \A i \in 1..Len(contributors) : contributors[i][key] = 0

NobodyHas(label) ==
    \A i \in 1..Len(contributors) : ~HasBadge(badges, contributors[i].name, label)

\* C5: "Bug Squasher", "Feature Creator" and "Code Refactorer" go to nobody
\* when the maximum of bug_fixes, add_commits, refactor_commits is 0.
C5_NoBadgeOnZeroMaximum ==
    (Badged /\ Len(contributors) > 0) =>
        /\ AllZero("bug_fixes") => NobodyHas("Bug Squasher")
        /\ AllZero("add_commits") => NobodyHas("Feature Creator")
        /\ AllZero("refactor_commits") => NobodyHas("Code Refactorer")

\* a contributor map filled by closed issues only, and none of the three
C5_Witness ==
    /\ pc = "done" /\ Len(contributors) > 0
    /\ stats.issues_closed > 0
    /\ stats.fix + stats.add + stats.refactor + stats.other_commits = 0
    /\ NobodyHas("Bug Squasher") /\ NobodyHas("Feature Creator")
    /\ NobodyHas("Code Refactorer")

\* C10: with a contributor, "Top Contributor" goes to exactly one: the
\* first inserted among those of maximal kpi; with none, there is no badge.
C10_TopIsFirstMaximum ==
    Badged =>
        IF Len(contributors) = 0 THEN DOMAIN badges = {}
        ELSE \A i \in 1..Len(contributors) :
                HasBadge(badges, contributors[i].name, "Top Contributor")
                    <=> /\ \A j \in 1..Len(contributors) :
                              contributors[j].kpi <= contributors[i].kpi
                        /\ \A j \in 1..(i - 1) :
                              contributors[j].kpi < contributors[i].kpi

\* two contributors tie on kpi and the first inserted holds the badge
C10_Witness ==
    /\ pc = "done" /\ Len(contributors) = 2
    /\ contributors[1].kpi = contributors[2].kpi
    /\ HasBadge(badges, contributors[1].name, "Top Contributor")
    /\ ~HasBadge(badges, contributors[2].name, "Top Contributor")

(***************************************************************************)
(* Properties of the project-task stage.                                   *)
(***************************************************************************)
\* C6: an item updated before now - 7 days changes neither tasks_completed
\* nor project_tasks, whatever its status; an item inside the window is
\* appended after the tasks already there; and the report lists exactly
\* project_tasks.
C6_OutsideWindowIgnored ==
    [][/\ (pc = "get_project_tasks" /\ idx' = idx + 1) =>
            IF cur'.updatedAt.day < now - 7
            THEN stats' = stats /\ project_tasks' = project_tasks
            ELSE /\ Len(project_tasks') = Len(project_tasks) + 1
                 /\ SubSeq(project_tasks', 1, Len(project_tasks)) = project_tasks
                 /\ project_tasks'[Len(project_tasks')].updated = cur'.updatedAt
       /\ pc = "report" => reports'[IsoWeek(now)].tasks = project_tasks
    ]_vars

\* an item marked done, updated outside the window, has been passed over
\* after an item inside the window was appended
C6_Witness ==
    /\ pc = "get_project_tasks" /\ idx = 2
    /\ cur # None /\ cur.updatedAt = Outside(now)
    /\ IsCompleted(StatusList(cur.fieldValues))
    /\ Len(project_tasks) = 1 /\ stats.tasks_completed = 0

(***************************************************************************)
(* Properties of the previous week's KPI.                                  *)
(***************************************************************************)
\* the reports of weeks before the current one
Earlier == {w \in DOMAIN reports : w < IsoWeek(now)}

\* the KPI a report was written with
WrittenKpi(w) == calculate_kpi(reports[w].stats)

\* the report whose name comes first in descending lexical order
FirstByName(S) ==
    CHOOSE w \in S : \A v \in S \ {w} : StrLess(FileName(v), FileName(w))

Latest(S) == CHOOSE w \in S : \A v \in S : v <= w

\* previous_kpi holds the result of get_previous_week_kpi
PreviousRead == pc = "badges"

\* C3: a run of a later week, for which the report of week w is the most
\* recent one of the directory, reads back the KPI that report was written
\* with.
C3_ReadsLatestReport ==
    (PreviousRead /\ Earlier # {}) =>
        (Len(reports[Latest(Earlier)].lines) > 0
            => previous_kpi = WrittenKpi(Latest(Earlier)))

Readable == {w \in Earlier : Len(reports[w].lines) > 0}

AsMap(cs) == [n \in Names(cs) |-> Entry(cs, n)]

\* no tie that insertion order would break: no two contributors with the
\* same kpi, with the same maximal total_actions, or with the same positive
\* maximal bug_fixes, add_commits or refactor_commits
TieFree(cs) ==
    \A i, j \in 1..Len(cs) :
        i # j =>
            /\ cs[i].kpi # cs[j].kpi
            /\ \A key \in {"total_actions", "bug_fixes", "add_commits", "refactor_commits"} :
                  ~ /\ cs[i][key] = cs[j][key]
                    /\ \A k \in 1..Len(cs) : cs[k][key] <= cs[i][key]
                    /\ (key = "total_actions" \/ cs[i][key] > 0)

\* C9 as stated: whatever the order of the three stages, the run ends with
\* the stats, contributor records, task list, badges and contributor
\* listing of the main order.
C9_AnyOrderSameOutcome ==
    pc = "done" =>
        LET M == MainOrder(feed, now) IN
        /\ stats = M.stats
        /\ AsMap(contributors) = AsMap(M.contributors)
        /\ project_tasks = M.project_tasks
        /\ badges = assign_badges(M.contributors)
        /\ reports[IsoWeek(now)].contributors
              = ContributorSections(M.contributors, assign_badges(M.contributors))

\* C9 as amended: the stats, the record of each contributor and the task
\* list are those of the main order; the badges and the listing are too
\* when no tie is left to insertion order.
C9_AnyOrderSameAggregate ==
    pc = "done" =>
        LET M == MainOrder(feed, now) IN
        /\ stats = M.stats
        /\ AsMap(contributors) = AsMap(M.contributors)
        /\ project_tasks = M.project_tasks
        /\ TieFree(M.contributors) =>
              /\ badges = assign_badges(M.contributors)
              /\ reports[IsoWeek(now)].contributors
                    = ContributorSections(M.contributors, assign_badges(M.contributors))

\* the stages ran in another order, which inserted the two contributors in
\* another order, and the outcome is that of the main order
C9_Witness ==
    /\ pc = "done" /\ plan # MainPlan
    /\ Len(contributors) = 2
    /\ contributors # MainOrder(feed, now).contributors
    /\ stats.issues_closed > 0 /\ Len(project_tasks) > 0
    /\ TieFree(contributors)
    /\ badges = assign_badges(MainOrder(feed, now).contributors)

====
